---- MODULE Spec2Model ----
(***************************************************************************)
(* Model of the signaling-session client of ion-sdk-js (src/src/proto.ts,  *)
(* class Client): room membership, the registry of known streams, the      *)
(* local-stream list, the remote-stream map, the requests in flight and    *)
(* the notification handler.                                               *)
(*                                                                         *)
(* Every value of the program is modelled as a string, so that values of   *)
(* different JavaScript types stay comparable: None stands for undefined.  *)
(* The signaling peer (protoo-client) and the stream handles (./stream)    *)
(* are collaborators: what they answer, and when, is an input.             *)
(***************************************************************************)
EXTENDS Naturals, Sequences, FiniteSets, Bags

VARIABLES
  rid,           \* this.rid: the room joined, None before any join
  roomToken,     \* this.roomToken
  localStreams,  \* this.localStreams: sequence of LocalStream handles
  streams,       \* this.streams: function mid -> RemoteStream handle
  knownStreams,  \* this.knownStreams: function mid -> track map (the registry)
  detached,      \* removeAllListeners() has run: the listeners are gone
  peerClosed,    \* this.dispatch.close() has been called
  localMid,      \* the LocalStream handles that have an assigned mid
  nextRemote,    \* number of RemoteStream handles created so far
  inflight,      \* bag of suspended async calls (awaiting a promise)
  observed,      \* history: mids seen in a join response or a stream-add
  everJoined,    \* history: join has been called
  joinTok,       \* history: the token argument of the most recent join
  ret,           \* what the last call or handler returned or threw
  fx,            \* what the last step did to its collaborators, in order
  ice,           \* the ICE states the handles reported to the last poll
  ops,           \* history: calls and inbound events so far
  probed         \* the last step is the one under observation

vars == <<rid, roomToken, localStreams, streams, knownStreams, detached,
          peerClosed, localMid, nextRemote, inflight, observed, everJoined,
          joinTok, ret, fx, ice, ops, probed>>

\* The collections close() clears.
collections == <<localStreams, streams, knownStreams>>

----------------------------------------------------------------------------
\* Bounds of the model.
MaxLocal == 2      \* length of the local-stream list
MaxRemote == 2     \* RemoteStream handles created in one run
MaxInFlight == 2   \* async calls suspended at the same time
MaxPubs == 2       \* descriptors in the pubs of one join response
MaxOps == 4        \* calls and inbound events in one run

\* Values.
None == "undefined"
Rids == {"r1"}
Tokens == {"tok"}
Mids == {"m1", "m2"}
MidOrder == <<"m1", "m2">>
OwnUid == "u1"
Uids == {"u2"}
Infos == {"i1"}
Descriptions == {"d1"}
LocalHandles == {"L1", "L2"}
RemoteHandles == {"R1", "R2", "R3"}
RemoteHandle(n) == <<"R1", "R2", "R3">>[n]

\* A tracks object: its own properties in property order, or undefined
\* (MediaStreamInfo.tracks is optional).
NoTracks == [def |-> FALSE, props |-> <<>>]
AudioOnly == [def |-> TRUE, props |-> << <<"audio", "t1">> >>]
AudioVideo == [def |-> TRUE, props |-> << <<"audio", "t1">>, <<"video", "t2">> >>]
TrackObjs == {AudioOnly, AudioVideo}
TrackVals == TrackObjs \cup {NoTracks}

\* MediaStreamInfo, as carried by join responses and notifications.
Descriptors ==
  [mid : Mids \cup {None}, uid : Uids, info : Infos,
   description : Descriptions, tracks : TrackVals]

\* The pubs of a join response: every descriptor that has tracks has the
\* same two.
PubDescriptors == { d \in Descriptors : d.tracks \in {AudioVideo, NoTracks} }
PubsLists == UNION { [1..n -> PubDescriptors] : n \in 0..MaxPubs }

Methods == {"peer-join", "peer-leave", "stream-add", "stream-remove",
            "broadcast", "other"}
Errors == {"RequestError", "TimeoutError"}
PeerEvents == {"open", "disconnected", "close", "failed"}
IceStates == {None, "connected", "closed", "disconnected", "failed"}

----------------------------------------------------------------------------
\* Effects and results.
Eff(t, name, args) == [t |-> t, name |-> name, args |-> args]
Emit(name, args) == Eff("emit", name, args)
Ret(op, arg, res) == [op |-> op, arg |-> arg, res |-> res]
Call(op, arg, st) == [op |-> op, arg |-> arg, st |-> st]

\* JavaScript maps and objects with string keys, as functions.
EmptyMap == [m \in {} |-> None]
MapSet(f, k, v) == [m \in DOMAIN f \cup {k} |-> IF m = k THEN v ELSE f[m]]
MapDelete(f, k) == [m \in DOMAIN f \ {k} |-> f[m]]

\* ret and fx are outputs of a step. They are recorded for the step under
\* observation, the last one of a run (probed); for the steps before it they
\* are left blank, so that states that differ in outputs alone are one state.
Blank == Ret(None, None, None)
Probe == ~probed /\ probed' \in BOOLEAN
Got(r) == IF probed' THEN r ELSE Blank
Seen(f) == IF probed' THEN f ELSE <<>>

\* One more call of the application, or one more event of the peer.
Counted == ops < MaxOps /\ ops' = ops + 1

\* Promises awaited.
Suspended == BagCardinality(inflight)
Suspend(c) == inflight (+) SetToBag({c})
Resume(c) == inflight (-) SetToBag({c})
Closing == \E c \in BagToSet(inflight) : c.op = "close"

----------------------------------------------------------------------------
\* objToStrMap (proto.ts 270-276): a Map built by one set per own key of obj.
\* A Map is the sequence of its entries in insertion order.
ObjKeys(obj) == [i \in 1..Len(obj.props) |-> obj.props[i][1]]
ObjGet(obj, k) ==
  obj.props[CHOOSE i \in 1..Len(obj.props) : obj.props[i][1] = k][2]
StrMapSet(m, k, v) ==
  IF \E i \in 1..Len(m) : m[i][1] = k
  THEN [i \in 1..Len(m) |-> IF m[i][1] = k THEN <<k, v>> ELSE m[i]]
  ELSE Append(m, <<k, v>>)

RECURSIVE SetEach(_, _, _)
SetEach(m, obj, keys) ==
  IF keys = <<>> THEN m
  ELSE SetEach(StrMapSet(m, Head(keys), ObjGet(obj, Head(keys))), obj, Tail(keys))

objToStrMap(obj) == SetEach(<<>>, obj, ObjKeys(obj))

\* A publish or subscribe whose room guard is missing.
JoinedMut == TRUE

\* The guard of publish and subscribe: !this.rid throws.
Joined == rid # None

\* A subscribe whose registry lookup is not checked.
KnownMut(mid) == TRUE

\* The guard of subscribe: this.knownStreams.get(mid) is defined.
Known(mid) == mid \in DOMAIN knownStreams

\* What close() leaves in the three collections (proto.ts 199-201).
Cleared ==
  [localStreams |-> <<>>, streams |-> EmptyMap, knownStreams |-> EmptyMap]

\* join's pubs.forEach (proto.ts 125-132): per descriptor with a mid, the
\* registry entry is set and stream-add emitted; objToStrMap(undefined)
\* throws a TypeError out of the loop, into join's catch.
RECURSIVE JoinPubs(_, _, _)
JoinPubs(pubs, known, out) ==
  IF pubs = <<>> THEN [known |-> known, fx |-> out, threw |-> FALSE]
  ELSE LET pub == Head(pubs) IN
    IF pub.mid = None THEN JoinPubs(Tail(pubs), known, out)
    ELSE IF ~pub.tracks.def THEN [known |-> known, fx |-> out, threw |-> TRUE]
    ELSE JoinPubs(Tail(pubs),
                  MapSet(known, pub.mid, objToStrMap(pub.tracks)),
                  Append(out, Emit("stream-add",
                         <<pub.mid, pub.uid, pub.info, pub.description>>)))

PubMids(pubs) == { pubs[i].mid : i \in 1..Len(pubs) } \ {None}

----------------------------------------------------------------------------
Init ==
  /\ rid = None
  /\ roomToken = None
  /\ localStreams = <<>>
  /\ streams = EmptyMap
  /\ knownStreams = EmptyMap
  /\ detached = FALSE
  /\ peerClosed = FALSE
  /\ localMid = {}
  /\ nextRemote = 0
  /\ inflight = EmptyBag
  /\ observed = {}
  /\ everJoined = FALSE
  /\ joinTok = <<>>
  /\ ret = Blank
  /\ fx = <<>>
  /\ ice = EmptyMap
  /\ ops = 0
  /\ probed = FALSE

\* The token field of a request: present when roomToken is set.
TokenField(tok) == IF tok # None THEN tok ELSE None

\* broadcast(info) (proto.ts 101-108): the request's promise is returned.
Broadcast(info) ==
  /\ Probe /\ Counted
  /\ fx' = Seen(<<Eff("request", "broadcast",
                 <<rid, OwnUid, info, TokenField(roomToken)>>)>>)
  /\ ret' = Got(Ret("broadcast", info, "pending"))
  /\ UNCHANGED <<rid, roomToken, collections, detached, peerClosed, localMid,
                 nextRemote, inflight, observed, everJoined, joinTok, ice>>

\* A join that leaves rid alone until its request has resolved.
RidAtCallMut(r) == rid

\* this.rid = rid, before the request is sent (proto.ts 111).
RidAtCall(r) == r

\* if (token) this.roomToken = token (proto.ts 112-114).
TokenAtCall(tok) == IF tok # None THEN tok ELSE roomToken

\* join(rid, info, token) up to its await (proto.ts 110-121).
Join(r, tok) ==
  /\ Probe /\ Counted
  /\ Suspended < MaxInFlight
  /\ rid' = RidAtCall(r)
  /\ roomToken' = TokenAtCall(tok)
  /\ inflight' = Suspend(Call("join", r, tok))
  /\ fx' = Seen(<<Eff("request", "join",
                      <<rid', OwnUid, "Guest", TokenField(tok)>>)>>)
  /\ ret' = Got(Ret("join", <<r, tok>>, "pending"))
  /\ everJoined' = TRUE
  /\ joinTok' = <<tok>>
  /\ UNCHANGED <<collections, detached, peerClosed, localMid, nextRemote,
                 observed, ice>>

\* join after its request resolved with data (proto.ts 122-134).
JoinResolved(c, has, pubs) ==
  /\ Probe /\ UNCHANGED ops
  /\ c.op = "join" /\ BagIn(c, inflight)
  /\ ~peerClosed
  /\ LET r == IF has THEN JoinPubs(pubs, knownStreams, <<>>)
              ELSE [known |-> knownStreams, fx |-> <<>>, threw |-> FALSE] IN
       /\ knownStreams' = r.known
       /\ fx' = Seen(r.fx)
       /\ ret' = Got(Ret("join.resolved", IF has THEN pubs ELSE <<>>,
                         IF r.threw THEN "TypeError" ELSE "ok"))
  /\ inflight' = Resume(c)
  /\ observed' = IF has THEN observed \cup PubMids(pubs) ELSE observed
  /\ UNCHANGED <<rid, roomToken, localStreams, streams, detached, peerClosed,
                 localMid, nextRemote, everJoined, joinTok, ice>>

\* throw error (proto.ts 137): what join's catch throws for the rejection err.
Rethrown(err) == err

\* join after its request was rejected with err (proto.ts 135-138).
JoinRejected(c, err) ==
  /\ Probe /\ UNCHANGED ops
  /\ c.op = "join" /\ BagIn(c, inflight)
  /\ inflight' = Resume(c)
  /\ fx' = Seen(<<>>)
  /\ ret' = Got(Ret("join.rejected", err, Rethrown(err)))
  /\ UNCHANGED <<rid, roomToken, collections, detached, peerClosed, localMid,
                 nextRemote, observed, everJoined, joinTok, ice>>

\* History kept with a suspended publish: whether the handle was in the list
\* before this.localStreams.push(stream) (proto.ts 145).
Listed(h) ==
  IF \E i \in 1..Len(localStreams) : localStreams[i] = h THEN "dup" ELSE "new"

\* publish(stream) up to its await (proto.ts 141-146).
Publish(h) ==
  /\ Probe /\ Counted
  /\ IF ~Joined
     THEN /\ ret' = Got(Ret("publish", h, "PreconditionError"))
          /\ fx' = Seen(<<>>)
          /\ UNCHANGED <<rid, roomToken, collections, detached, peerClosed,
                         localMid, nextRemote, inflight, observed,
                         everJoined, joinTok, ice>>
     ELSE /\ Len(localStreams) < MaxLocal
          /\ Suspended < MaxInFlight
          /\ localStreams' = Append(localStreams, h)
          /\ fx' = Seen(<<Eff("publish", h, <<rid, roomToken>>)>>)
          /\ inflight' = Suspend(Call("publish", h, Listed(h)))
          /\ ret' = Got(Ret("publish", h, "pending"))
          /\ UNCHANGED <<rid, roomToken, streams, knownStreams, detached,
                         peerClosed, localMid, nextRemote, observed,
                         everJoined, joinTok, ice>>

\* What the handle's own publish does to the handle when it resolves: the
\* handle has negotiated and has its mid.
HandlePublished(h, ok) == IF ok THEN localMid \cup {h} ELSE localMid

\* publish after stream.publish settled (proto.ts 146): its result is returned.
PublishSettled(c, ok) ==
  /\ Probe /\ UNCHANGED ops
  /\ c.op = "publish" /\ BagIn(c, inflight)
  /\ inflight' = Resume(c)
  /\ localMid' = HandlePublished(c.arg, ok)
  /\ fx' = Seen(<<>>)
  /\ ret' = Got(Ret("publish.settled", c.arg, IF ok THEN "ok" ELSE "PublishError"))
  /\ UNCHANGED <<rid, roomToken, collections, detached, peerClosed,
                 nextRemote, observed, everJoined, joinTok, ice>>

\* this.localStreams.filter(localStream => localStream !== stream)
Without(list, h) == SelectSeq(list, LAMBDA x : x # h)

\* What the handle's own unpublish does to the handle: its mid is dropped.
HandleUnpublished(h, ok) == IF ok THEN localMid \ {h} ELSE localMid

\* An unpublish whose argument is not checked.
AbsentMut(h) == FALSE

\* The guard of unpublish: !stream throws.
Absent(h) == h = None

\* unpublish(stream) (proto.ts 149-155); h = None is an absent handle.
Unpublish(h, ok) ==
  /\ Probe /\ Counted
  /\ IF Absent(h)
     THEN /\ ret' = Got(Ret("unpublish", h, "ArgumentError"))
          /\ fx' = Seen(<<>>)
          /\ UNCHANGED <<rid, roomToken, collections, detached, peerClosed,
                         localMid, nextRemote, inflight, observed,
                         everJoined, joinTok, ice>>
     ELSE /\ localStreams' = Without(localStreams, h)
          /\ localMid' = HandleUnpublished(h, ok)
          /\ fx' = Seen(<<Eff("unpublish", h, <<>>)>>)
          /\ ret' = Got(Ret("unpublish", h, IF ok THEN "ok" ELSE "UnpublishError"))
          /\ UNCHANGED <<rid, roomToken, streams, knownStreams, detached,
                         peerClosed, nextRemote, inflight, observed,
                         everJoined, joinTok, ice>>

\* subscribe(mid) up to its await (proto.ts 157-165).
Subscribe(mid) ==
  /\ Probe /\ Counted
  /\ IF ~Joined \/ ~Known(mid)
     THEN /\ ret' = Got(Ret("subscribe", mid,
                       IF ~Joined THEN "PreconditionError" ELSE "NotFoundError"))
          /\ fx' = Seen(<<>>)
          /\ UNCHANGED <<rid, roomToken, collections, detached, peerClosed,
                         localMid, nextRemote, inflight, observed,
                         everJoined, joinTok, ice>>
     ELSE /\ Suspended < MaxInFlight
          /\ fx' = Seen(<<Eff("getRemoteMedia", mid, <<rid, roomToken>>)>>)
          /\ inflight' = Suspend(Call("subscribe", mid, ""))
          /\ ret' = Got(Ret("subscribe", mid, "pending"))
          /\ UNCHANGED <<rid, roomToken, collections, detached, peerClosed,
                         localMid, nextRemote, observed,
                         everJoined, joinTok, ice>>

\* subscribe after getRemoteMedia resolved with a new handle (proto.ts 166-167).
SubscribeResolved(c) ==
  /\ Probe /\ UNCHANGED ops
  /\ c.op = "subscribe" /\ BagIn(c, inflight)
  /\ nextRemote < MaxRemote
  /\ nextRemote' = nextRemote + 1
  /\ streams' = MapSet(streams, c.arg, RemoteHandle(nextRemote + 1))
  /\ inflight' = Resume(c)
  /\ fx' = Seen(<<>>)
  /\ ret' = Got(Ret("subscribe.resolved", c.arg, RemoteHandle(nextRemote + 1)))
  /\ UNCHANGED <<rid, roomToken, localStreams, knownStreams, detached,
                 peerClosed, localMid, observed, everJoined, joinTok, ice>>

\* subscribe after getRemoteMedia was rejected: the rejection is the result.
SubscribeRejected(c) ==
  /\ Probe /\ UNCHANGED ops
  /\ c.op = "subscribe" /\ BagIn(c, inflight)
  /\ inflight' = Resume(c)
  /\ fx' = Seen(<<>>)
  /\ ret' = Got(Ret("subscribe.rejected", c.arg, "SubscribeError"))
  /\ UNCHANGED <<rid, roomToken, collections, detached, peerClosed, localMid,
                 nextRemote, observed, everJoined, joinTok, ice>>

\* A RemoteStream handed out by getRemoteMedia has negotiated: it has its mid.
RemoteHasMid(h) == h \in RemoteHandles

\* One handle.close() of close(): invoked only on a handle with a mid.
CloseOf(h, threw) == Eff("close", h, <<IF threw THEN "threw" ELSE "ok">>)

\* The remote handles in the order of Object.values(this.streams).
RemoteList ==
  LET mids == SelectSeq(MidOrder, LAMBDA m : m \in DOMAIN streams)
  IN  [i \in 1..Len(mids) |-> streams[mids[i]]]

\* The close calls of one Promise.all(list.map(...)) of close(): thr holds the
\* positions whose close throws.
ClosesOf(list, withMid, thr) ==
  LET all == [i \in 1..Len(list) |-> CloseOf(list[i], i \in thr)]
      idx == [i \in 1..Len(list) |-> i]
  IN  [j \in 1..Len(SelectSeq(idx, LAMBDA i : withMid[i])) |->
         all[SelectSeq(idx, LAMBDA i : withMid[i])[j]]]

\* close() up to its first await (proto.ts 184-190): every local handle with
\* a mid is closed; a close that throws rejects the Promise.all.
CloseLocals(origin, bag) ==
  LET withMid == [i \in 1..Len(localStreams) |-> localStreams[i] \in localMid]
  IN \E thr \in SUBSET { i \in 1..Len(localStreams) : withMid[i] } :
       /\ fx' = Seen(ClosesOf(localStreams, withMid, thr))
       /\ inflight' = bag (+) SetToBag({Call("close", origin,
                        IF thr = {} THEN "locals" ELSE "locals-failed")})
       /\ ret' = Got(Ret(origin, None, "pending"))
       /\ UNCHANGED <<rid, roomToken, collections, detached, peerClosed,
                      localMid, nextRemote, observed, everJoined, joinTok, ice>>

\* close() called by the application.
Close ==
  /\ Probe /\ Counted
  /\ Suspended < MaxInFlight
  /\ CloseLocals("close", inflight)

\* A close() that forgets removeAllListeners().
DetachMut == detached

\* this.removeAllListeners() (proto.ts 202): no listener is left.
Detach == TRUE

\* The end of close() (proto.ts 199-203).
CloseFinish(c) ==
  /\ localStreams' = Cleared.localStreams
  /\ streams' = Cleared.streams
  /\ knownStreams' = Cleared.knownStreams
  /\ detached' = Detach
  /\ peerClosed' = TRUE
  /\ inflight' = Resume(c)
  /\ fx' = Seen(<<Eff("close", "dispatch", <<>>)>>)
  /\ ret' = Got(Ret(c.arg, None, "ok"))
  /\ joinTok' = <<>>
  /\ UNCHANGED <<rid, roomToken, localMid, nextRemote, observed, everJoined, ice>>

\* close() after its first await (proto.ts 191-195, or 196-203 when a local
\* close threw): every remote handle with a mid is closed.
CloseRemotes(c) ==
  /\ Probe /\ UNCHANGED ops
  /\ c.op = "close" /\ BagIn(c, inflight)
  /\ IF c.st = "locals-failed"
     THEN CloseFinish(c)
     ELSE /\ c.st = "locals"
          /\ LET list == RemoteList
                 withMid == [i \in 1..Len(list) |-> RemoteHasMid(list[i])]
             IN \E thr \in SUBSET { i \in 1..Len(list) : withMid[i] } :
                  fx' = Seen(ClosesOf(list, withMid, thr))
          /\ inflight' = Resume(c) (+) SetToBag({Call("close", c.arg, "remotes")})
          /\ ret' = Got(Ret(c.arg, None, "pending"))
          /\ UNCHANGED <<rid, roomToken, collections, detached, peerClosed,
                         localMid, nextRemote, observed,
                         everJoined, joinTok, ice>>

\* close() after its second await (proto.ts 196-203).
CloseDone(c) ==
  /\ Probe /\ UNCHANGED ops
  /\ c.op = "close" /\ BagIn(c, inflight)
  /\ c.st = "remotes"
  /\ CloseFinish(c)

\* leave() up to its await (proto.ts 170-176).
Leave ==
  /\ Probe /\ Counted
  /\ Suspended < MaxInFlight
  /\ inflight' = Suspend(Call("leave", None, ""))
  /\ fx' = Seen(<<Eff("request", "leave", <<rid, OwnUid, TokenField(roomToken)>>)>>)
  /\ ret' = Got(Ret("leave", None, "pending"))
  /\ UNCHANGED <<rid, roomToken, collections, detached, peerClosed, localMid,
                 nextRemote, observed, everJoined, joinTok, ice>>

\* A leave whose catch rethrows.
SwallowedMut(ok) == ok

\* leave's catch (proto.ts 178-180) logs and does not rethrow: whatever the
\* request did, leave goes on.
Swallowed(ok) == TRUE

\* leave() after its request settled (proto.ts 177-181): a rejection is
\* logged, and close() is called either way.
LeaveSettled(c, ok) ==
  /\ Probe /\ UNCHANGED ops
  /\ c.op = "leave" /\ BagIn(c, inflight)
  /\ IF Swallowed(ok)
     THEN CloseLocals(IF ok THEN "leave" ELSE "leave-rejected", Resume(c))
     ELSE /\ inflight' = Resume(c)
          /\ fx' = Seen(<<>>)
          /\ ret' = Got(Ret("leave-rejected", None, "RequestError"))
          /\ UNCHANGED <<rid, roomToken, collections, detached, peerClosed,
                         localMid, nextRemote, observed,
                         everJoined, joinTok, ice>>

\* The peer's own events (proto.ts 77-95), re-emitted as transport-* events.
\* The peer delivers its events and notifications as tasks of their own, never
\* between the microtask steps of a close() under way. A peer that has been
\* closed delivers nothing more, but for the close event that reports it, and
\* resolves no request.
Inbound == ~Closing /\ ~peerClosed

TransportEvent(e) ==
  IF e = "open" THEN Emit("transport-open", <<>>)
  ELSE IF e = "disconnected" THEN Emit("transport-disconnected", <<>>)
  ELSE IF e = "close" THEN Emit("transport-closed", <<>>)
  ELSE Emit("transport-failed", <<"1">>)

OnPeerEvent(e) ==
  /\ Probe /\ Counted
  /\ ~Closing
  /\ peerClosed => e = "close"
  /\ fx' = Seen(<<TransportEvent(e)>>)
  /\ ret' = Got(Ret("on-" \o e, None, "ok"))
  /\ UNCHANGED <<rid, roomToken, collections, detached, peerClosed, localMid,
                 nextRemote, inflight, observed, everJoined, joinTok, ice>>

\* onRequest (proto.ts 226-228): logs.
OnRequest ==
  /\ Probe /\ Counted
  /\ Inbound
  /\ fx' = Seen(<<>>)
  /\ ret' = Got(Ret("onRequest", None, "ok"))
  /\ UNCHANGED <<rid, roomToken, collections, detached, peerClosed, localMid,
                 nextRemote, inflight, observed, everJoined, joinTok, ice>>

\* A stream-add that replaces the registry by the one entry it brings.
StreamAddMut(known, data) ==
  IF data.mid # None /\ ~data.tracks.def
  THEN [known |-> known, fx |-> <<>>, res |-> "TypeError"]
  ELSE [known |-> IF data.mid # None
                  THEN MapSet(EmptyMap, data.mid, objToStrMap(data.tracks))
                  ELSE known,
        fx |-> <<Emit("stream-add",
                      <<data.mid, data.uid, data.info, data.description>>)>>,
        res |-> "ok"]

\* case 'stream-add' (proto.ts 244-252), run on the registry known.
StreamAdd(known, data) ==
  IF data.mid # None /\ ~data.tracks.def
  THEN [known |-> known, fx |-> <<>>, res |-> "TypeError"]
  ELSE [known |-> IF data.mid # None
                  THEN MapSet(known, data.mid, objToStrMap(data.tracks))
                  ELSE known,
        fx |-> <<Emit("stream-add",
                      <<data.mid, data.uid, data.info, data.description>>)>>,
        res |-> "ok"]

OnStreamAdd(data) == StreamAdd(knownStreams, data)

\* A stream-remove that checks for the handle first and ignores a mid that is
\* not subscribed.
OnStreamRemoveMut(data, closeOk) ==
  IF data.mid \notin DOMAIN streams
  THEN [streams |-> streams, fx |-> <<>>, res |-> "ok"]
  ELSE IF ~closeOk
  THEN [streams |-> streams,
        fx |-> <<Emit("stream-remove", <<streams[data.mid], data.uid>>),
                 CloseOf(streams[data.mid], TRUE)>>,
        res |-> "CloseError"]
  ELSE [streams |-> MapDelete(streams, data.mid),
        fx |-> <<Emit("stream-remove", <<streams[data.mid], data.uid>>),
                 CloseOf(streams[data.mid], FALSE),
                 Eff("delete", data.mid, <<>>)>>,
        res |-> "ok"]

\* case 'stream-remove' (proto.ts 253-260): closeOk is whether the handle's
\* close returns; undefined.close() throws a TypeError.
OnStreamRemove(data, closeOk) ==
  IF data.mid \notin DOMAIN streams
  THEN [streams |-> streams,
        fx |-> <<Emit("stream-remove", <<None, data.uid>>)>>,
        res |-> "TypeError"]
  ELSE IF ~closeOk
  THEN [streams |-> streams,
        fx |-> <<Emit("stream-remove", <<streams[data.mid], data.uid>>),
                 CloseOf(streams[data.mid], TRUE)>>,
        res |-> "CloseError"]
  ELSE [streams |-> MapDelete(streams, data.mid),
        fx |-> <<Emit("stream-remove", <<streams[data.mid], data.uid>>),
                 CloseOf(streams[data.mid], FALSE),
                 Eff("delete", data.mid, <<>>)>>,
        res |-> "ok"]

\* The other cases of onNotification (proto.ts 234-243, 261-265): an emit.
OnOther(method, data) ==
  IF method = "peer-join" THEN <<Emit("peer-join", <<data.uid, data.info>>)>>
  ELSE IF method = "peer-leave" THEN <<Emit("peer-leave", <<data.uid>>)>>
  ELSE IF method = "broadcast" THEN <<Emit("broadcast", <<data.uid, data.info>>)>>
  ELSE <<>>

\* onNotification (proto.ts 230-267), case 'stream-add'.
NotifyStreamAdd(data) ==
  /\ Probe /\ Counted
  /\ Inbound
  /\ knownStreams' = OnStreamAdd(data).known
  /\ fx' = Seen(OnStreamAdd(data).fx)
  /\ ret' = Got(Ret("on-stream-add", data.mid, OnStreamAdd(data).res))
  /\ observed' = observed \cup ({data.mid} \ {None})
  /\ UNCHANGED <<rid, roomToken, localStreams, streams, detached, peerClosed,
                 localMid, nextRemote, inflight, everJoined, joinTok, ice>>

\* A stream-remove that also drops the mid from the registry.
NotifyStreamRemoveMut(data, closeOk) ==
  /\ Probe /\ Counted
  /\ Inbound
  /\ streams' = OnStreamRemove(data, closeOk).streams
  /\ knownStreams' = IF OnStreamRemove(data, closeOk).res = "ok"
                     THEN MapDelete(knownStreams, data.mid)
                     ELSE knownStreams
  /\ fx' = Seen(OnStreamRemove(data, closeOk).fx)
  /\ ret' = Got(Ret("on-stream-remove", data.mid,
                    OnStreamRemove(data, closeOk).res))
  /\ UNCHANGED <<rid, roomToken, localStreams, detached, peerClosed, localMid,
                 nextRemote, inflight, observed, everJoined, joinTok, ice>>

\* onNotification, case 'stream-remove'.
NotifyStreamRemove(data, closeOk) ==
  /\ Probe /\ Counted
  /\ Inbound
  /\ streams' = OnStreamRemove(data, closeOk).streams
  /\ fx' = Seen(OnStreamRemove(data, closeOk).fx)
  /\ ret' = Got(Ret("on-stream-remove", data.mid, OnStreamRemove(data, closeOk).res))
  /\ UNCHANGED <<rid, roomToken, localStreams, knownStreams, detached,
                 peerClosed, localMid, nextRemote, inflight, observed,
                 everJoined, joinTok, ice>>

\* onNotification, the cases that emit only, and the methods it ignores.
NotifyOther(method, data) ==
  /\ Probe /\ Counted
  /\ Inbound
  /\ fx' = Seen(OnOther(method, data))
  /\ ret' = Got(Ret("on-" \o method, None, "ok"))
  /\ UNCHANGED <<rid, roomToken, collections, detached, peerClosed, localMid,
                 nextRemote, inflight, observed, everJoined, joinTok, ice>>

\* The data of a notification that carries no tracks.
Plain(mid) ==
  [mid |-> mid, uid |-> "u2", info |-> "i1", description |-> "d1",
   tracks |-> NoTracks]

----------------------------------------------------------------------------
\* The calls suspended at an await.
Calls == BagToSet(inflight)

Next ==
  \/ \E info \in Infos : Broadcast(info)
  \/ \E r \in Rids, tok \in Tokens \cup {None} : Join(r, tok)
  \/ \E c \in Calls, pubs \in PubsLists : JoinResolved(c, TRUE, pubs)
  \/ \E c \in Calls : JoinResolved(c, FALSE, <<>>)
  \/ \E c \in Calls, err \in Errors : JoinRejected(c, err)
  \/ \E h \in LocalHandles : Publish(h)
  \/ \E c \in Calls, ok \in BOOLEAN : PublishSettled(c, ok)
  \/ \E h \in LocalHandles \cup {None}, ok \in BOOLEAN : Unpublish(h, ok)
  \/ \E mid \in Mids : Subscribe(mid)
  \/ \E c \in Calls : SubscribeResolved(c)
  \/ \E c \in Calls : SubscribeRejected(c)
  \/ Leave
  \/ \E c \in Calls, ok \in BOOLEAN : LeaveSettled(c, ok)
  \/ Close
  \/ \E c \in Calls : CloseRemotes(c)
  \/ \E c \in Calls : CloseDone(c)
  \/ \E e \in PeerEvents : OnPeerEvent(e)
  \/ OnRequest
  \/ \E data \in Descriptors : NotifyStreamAdd(data)
  \/ \E mid \in Mids \cup {None}, closeOk \in BOOLEAN :
       NotifyStreamRemove(Plain(mid), closeOk)
  \/ \E method \in Methods \ {"stream-add", "stream-remove"} :
       NotifyOther(method, Plain(None))

Spec == Init /\ [][Next]_vars

----------------------------------------------------------------------------
\* Connectivity (proto.ts 206-224). report is what getIceConnectionState()
\* answers for each handle polled; None is a missing state.

\* A status list that forgets "disconnected".
failedStatusesMut == {"closed", "failed"}

\* const failedStatuses (proto.ts 208).
failedStatuses == {"closed", "disconnected", "failed"}

RECURSIVE IceFold(_, _, _)
IceFold(list, report, connected) ==
  IF list = <<>> THEN connected
  ELSE LET state == report[Head(list)] IN
    IceFold(Tail(list), report,
            IF state # None THEN connected /\ state \notin failedStatuses
            ELSE FALSE)

isStreamIceConnected(local, report) ==
  IceFold(IF local THEN localStreams ELSE RemoteList, report, TRUE)

streamsConnected(report) ==
  isStreamIceConnected(TRUE, report) /\ isStreamIceConnected(FALSE, report)

\* The handles of both collections.
Held ==
  { localStreams[i] : i \in 1..Len(localStreams) }
    \cup { streams[m] : m \in DOMAIN streams }

\* The application calls streamsConnected().
StreamsConnected(report) ==
  /\ ~probed /\ probed' = TRUE
  /\ Counted
  /\ ice' = report
  /\ ret' = Ret("streamsConnected", None,
                IF streamsConnected(report) THEN "true" ELSE "false")
  /\ fx' = <<>>
  /\ UNCHANGED <<rid, roomToken, collections, detached, peerClosed, localMid,
                 nextRemote, inflight, observed, everJoined, joinTok>>

\* The client with the connectivity poll.
NextPoll ==
  \/ Next
  \/ \E report \in [Held -> IceStates] : StreamsConnected(report)

SpecPoll == Init /\ [][NextPoll]_vars

----------------------------------------------------------------------------
\* Claims.

\* close() has completed: its last statement, this.dispatch.close(), has run.
CloseCompleted == peerClosed

Empty ==
  /\ localStreams = <<>>
  /\ DOMAIN streams = {}
  /\ DOMAIN knownStreams = {}

\* The events of the last step that reached a listener.
Heard == IF detached THEN <<>> ELSE SelectSeq(fx, LAMBDA e : e.t = "emit")

\* C1: once close() has completed, the local-stream list, the remote-stream
\* map and the registry are empty in every later state.
C1_EmptyForever == CloseCompleted => Empty

C3_SubscribeUnobserved ==
  [][ (probed' /\ ret'.op = "subscribe" /\ rid # None
         /\ ret'.arg \notin observed)
      => /\ ret'.res = "NotFoundError"
         /\ fx' = <<>>
         /\ inflight' = inflight
         /\ streams' = streams ]_vars

\* C3 witness: such a subscribe has failed while another mid is subscribed.
C3_Witness ==
  /\ probed /\ ret.op = "subscribe" /\ ret.res = "NotFoundError"
  /\ rid # None /\ ret.arg \notin observed
  /\ DOMAIN streams # {}

\* C4: publish(handle) before any join fails with PreconditionError, adds
\* nothing to the local-stream list and does not call the handle's publish.
C4_PublishBeforeJoin ==
  [][ (probed' /\ ret'.op = "publish" /\ ~everJoined)
      => /\ ret'.res = "PreconditionError"
         /\ localStreams' = localStreams
         /\ inflight' = inflight
         /\ fx' = <<>> ]_vars

\* C4 witness: publish has failed before any join.
C4_Witness ==
  /\ probed /\ ret.op = "publish" /\ ret.res = "PreconditionError"
  /\ ~everJoined /\ ops > 1

\* The track mapping of a descriptor, as the object's own entries.
MappingOf(d) == d.tracks.props

\* C5: after a join response with pubs, every descriptor with a mid has a
\* registry entry equal to its track mapping and one stream-add event with
\* its (mid, uid, info, description), in the order of pubs; a descriptor
\* without a mid has neither.
C5_JoinRegistersPubs ==
  (probed /\ ret.op = "join.resolved") =>
    LET pubs == ret.arg
        withMid == SelectSeq(pubs, LAMBDA d : d.mid # None)
    IN /\ \A i \in 1..Len(withMid) :
            /\ withMid[i].mid \in DOMAIN knownStreams
            /\ knownStreams[withMid[i].mid] = MappingOf(withMid[i])
       /\ fx = [i \in 1..Len(withMid) |->
                  Emit("stream-add", <<withMid[i].mid, withMid[i].uid,
                                       withMid[i].info, withMid[i].description>>)]

\* C6: a stream-remove notification for a subscribed mid emits
\* stream-remove(handle, uid) with the stored handle, closes that handle and
\* removes mid from the remote-stream map, in that order; the registry and
\* the other entries of the map stay.
C6_StreamRemove ==
  [][ (probed' /\ ret'.op = "on-stream-remove" /\ ret'.arg \in DOMAIN streams)
      => /\ Len(fx') = 3
         /\ fx'[1] = Emit("stream-remove", <<streams[ret'.arg], "u2">>)
         /\ fx'[2].t = "close" /\ fx'[2].name = streams[ret'.arg]
         /\ fx'[3] = Eff("delete", ret'.arg, <<>>)
         /\ streams' = MapDelete(streams, ret'.arg)
         /\ knownStreams' = knownStreams ]_vars

\* C7: leave() whose request was rejected does not reject: it completes as
\* close() does, with the three collections empty and the peer closed.
C7_LeaveRejected ==
  (probed /\ ret.op = "leave-rejected" /\ ret.res # "pending")
    => ret.res = "ok" /\ Empty /\ peerClosed

\* C7 witness: such a leave has completed, and it had streams to drop.
C7_Witness ==
  /\ probed /\ ret.op = "leave-rejected" /\ ret.res = "ok"
  /\ Empty /\ peerClosed /\ observed # {}

\* A handle reports a state that is present and not a failed one.
Healthy(state) == state \notin {None, "closed", "disconnected", "failed"}

\* C8: streamsConnected() is true exactly when every handle of the local list
\* and of the remote map reports a present state outside closed, disconnected
\* and failed (so with no handle it is true), and it changes no client state.
C8_StreamsConnected ==
  [][ (probed' /\ ret'.op = "streamsConnected")
      => /\ ret'.res = "true" <=> \A h \in Held : Healthy(ice'[h])
         /\ UNCHANGED <<rid, roomToken, collections, detached, peerClosed,
                        localMid, nextRemote, inflight>> ]_vars

\* C8 witness: a poll over a local and a remote handle has answered true.
C8_Witness ==
  /\ probed /\ ret.op = "streamsConnected" /\ ret.res = "true"
  /\ localStreams # <<>> /\ DOMAIN streams # {}

\* A join is waiting for its response.
JoinInFlight == \E c \in BagToSet(inflight) : c.op = "join"

\* C9: join sets rid, and the token when one is given, before its request
\* resolves, so publish and subscribe called meanwhile pass the joined-room
\* guard; a rejected join rejects with the same error and leaves rid and
\* token as they are.
C9_JoinSetsRidFirst ==
  [][ probed' =>
      /\ ret'.op = "join" =>
           /\ rid' = ret'.arg[1]
           /\ ret'.arg[2] # None => roomToken' = ret'.arg[2]
           /\ inflight' # inflight
      /\ (ret'.op \in {"publish", "subscribe"} /\ JoinInFlight) =>
           ret'.res # "PreconditionError"
      /\ ret'.op = "join.rejected" =>
           /\ ret'.res = ret'.arg
           /\ rid' = rid /\ rid # None
           /\ roomToken' = roomToken ]_vars

\* C9 witness: publish went through while the first join was in flight.
C9_Witness ==
  /\ probed /\ ret.op = "publish" /\ ret.res = "pending"
  /\ JoinInFlight /\ ops = 2

\* C10: unpublish of an absent handle fails with ArgumentError in every state
\* and leaves the local-stream list as it was.
C10_UnpublishAbsent ==
  [][ (probed' /\ ret'.op = "unpublish" /\ ret'.arg = None)
      => /\ ret'.res = "ArgumentError"
         /\ localStreams' = localStreams
         /\ fx' = <<>> ]_vars

\* C10 witness: it has failed so with a handle in the list.
C10_Witness ==
  /\ probed /\ ret.op = "unpublish" /\ ret.arg = None
  /\ ret.res = "ArgumentError" /\ localStreams # <<>>

\* close() starts in this step, called by the application or by leave().
CloseBegins == ~Closing /\ Closing'

\* The handle h is in the local-stream list.
InList(h) == \E i \in 1..Len(localStreams) : localStreams[i] = h

\* The effects f hold a close() invoked on the handle h.
ClosedIn(f, h) == \E i \in 1..Len(f) : f[i].t = "close" /\ f[i].name = h

\* C11: publish(handle) puts the handle in the local-stream list before it
\* awaits the handle's publish, and a close() that starts while that publish
\* is in flight closes the handle.
C11_CloseDuringPublish ==
  [][ probed' =>
      /\ (ret'.op = "publish" /\ ret'.res = "pending") =>
           /\ localStreams' = Append(localStreams, ret'.arg)
           /\ inflight' # inflight
      /\ CloseBegins =>
           \A c \in BagToSet(inflight) :
             (c.op = "publish" /\ InList(c.arg)) => ClosedIn(fx', c.arg) ]_vars

\* The close() calls under way.
Closes(bag) == { c \in BagToSet(bag) : c.op = "close" }

\* This step is the part of a close() that follows its first await.
AfterLocals ==
  \E c \in Closes(inflight) :
    /\ c.st \in {"locals", "locals-failed"}
    /\ CopiesIn(c, inflight') < CopiesIn(c, inflight)

\* This step is the last part of a close().
CloseEnds ==
  \E c \in Closes(inflight) :
    /\ CopiesIn(c, inflight') < CopiesIn(c, inflight)
    /\ BagCardinality(inflight') < BagCardinality(inflight)

\* C12: in close(), whether or not the close of a handle fails, close is
\* invoked on every local and on every remote handle that has a mid, the
\* collections are cleared and the peer is closed.
C12_CloseFailureIsolated ==
  [][ probed' =>
      /\ CloseBegins =>
           \A h \in localMid : InList(h) => ClosedIn(fx', h)
      /\ AfterLocals =>
           \A m \in DOMAIN streams :
             RemoteHasMid(streams[m]) => ClosedIn(fx', streams[m])
      /\ CloseEnds => (Empty' /\ peerClosed') ]_vars

\* The call c was suspended before this step and this step is its end.
Settles(c) ==
  /\ c \in BagToSet(inflight)
  /\ CopiesIn(c, inflight') < CopiesIn(c, inflight)

\* C13: a failed join, subscribe or publish leaves the registry, the
\* local-stream list and the remote-stream map as they were before the call:
\* a call that fails at once changes none of them, a call that is suspended
\* changes none of them before or when it is rejected, and a handle that was
\* not listed before a publish that fails is not listed after it.
C13_FailedCallsLeaveState ==
  [][ probed' =>
      /\ (ret'.op \in {"join", "subscribe"}) =>
           UNCHANGED collections
      /\ (ret'.op = "publish" /\ ret'.res # "pending") =>
           UNCHANGED collections
      /\ (ret'.op \in {"join.rejected", "subscribe.rejected"}) =>
           UNCHANGED collections
      /\ (ret'.op = "join.resolved" /\ ret'.res # "ok") =>
           UNCHANGED collections
      /\ (ret'.op = "publish.settled" /\ ret'.res # "ok") =>
           /\ UNCHANGED <<streams, knownStreams>>
           /\ \A c \in BagToSet(inflight) :
                (Settles(c) /\ c.op = "publish" /\ c.st = "new") =>
                  ~\E i \in 1..Len(localStreams') : localStreams'[i] = c.arg
    ]_vars

\* A subscribe of mid is waiting for its RemoteStream.
SubscribeInFlight(mid) ==
  \E c \in BagToSet(inflight) : c.op = "subscribe" /\ c.arg = mid

\* C14: a stream-remove notification for a mid with no subscribed handle
\* emits stream-remove with an undefined handle and then fails at the close
\* step; the remote-stream map, the registry and the local-stream list stay
\* as they are.
C14_StreamRemoveUnsubscribed ==
  [][ (probed' /\ ret'.op = "on-stream-remove"
         /\ ret'.arg \notin DOMAIN streams)
      => /\ fx' = <<Emit("stream-remove", <<None, "u2">>)>>
         /\ ret'.res = "TypeError"
         /\ UNCHANGED collections ]_vars

\* C14 witness: the handler has failed so for a mid whose subscribe is still
\* in flight.
C14_Witness ==
  /\ probed /\ ret.op = "on-stream-remove" /\ ret.res = "TypeError"
  /\ ret.arg \notin DOMAIN streams
  /\ SubscribeInFlight(ret.arg)
  /\ fx = <<Emit("stream-remove", <<None, "u2">>)>>

\* C15: a mid that is in the registry stays in it through every step other
\* than the end of a close(), called directly or through leave().
C15_RegistryKept ==
  [][ (\A m \in DOMAIN knownStreams : m \in DOMAIN knownStreams')
      \/ CloseEnds ]_vars

\* C15 witness: the stream of a subscribed mid has been removed, and the mid
\* is still in the registry.
C15_Witness ==
  /\ probed /\ ret.op = "on-stream-remove" /\ ret.res = "ok"
  /\ ret.arg \in DOMAIN knownStreams
  /\ ret.arg \notin DOMAIN streams

\* The registry after a join response with pubs.
AfterJoin(pubs) == JoinPubs(pubs, knownStreams, <<>>).known

\* The registry after a join response that left the registry joined and then
\* a stream-add notification with data, and after the same two in the other
\* order.
JoinFirst(joined, data) == StreamAdd(joined, data).known

NotifyFirst(pubs, data) ==
  JoinPubs(pubs, StreamAdd(knownStreams, data).known, <<>>).known

\* A stream-add notification can race the response of a join: a join is
\* pending, the peer delivers, and the run goes on from this state.
Racing == JoinInFlight /\ Inbound /\ ~probed

SameTracks(pubs, data) ==
  \A i \in 1..Len(pubs) :
    (data.mid # None /\ pubs[i].mid = data.mid) => pubs[i].tracks = data.tracks

C17_StreamsInRegistry == \A m \in DOMAIN streams : m \in DOMAIN knownStreams

\* close() has completed, by itself or within leave(), and join has not been
\* called since.
LeftRoom == peerClosed /\ joinTok = <<>>

\* C18: once leave() or close() has completed and until join is called again,
\* publish and subscribe fail with PreconditionError and add nothing to the
\* local-stream list or to the remote-stream map.
C18_NoRoomAfterClose ==
  [][ (LeftRoom /\ probed' /\ ret'.op \in {"publish", "subscribe"})
      => /\ ret'.res = "PreconditionError"
         /\ UNCHANGED <<localStreams, streams>>
         /\ inflight' = inflight ]_vars

\* C19: every stream-add event emitted, by a join response or by a stream-add
\* notification, has a defined mid whose track mapping the registry holds.
C19_StreamAddKnown ==
  \A i \in 1..Len(fx) :
    (fx[i].t = "emit" /\ fx[i].name = "stream-add") =>
      /\ fx[i].args[1] # None
      /\ fx[i].args[1] \in DOMAIN knownStreams

\* The token that a request, a handle's publish or getRemoteMedia is given.
TokenOf(e) == IF e.t = "request" THEN e.args[Len(e.args)] ELSE e.args[2]

\* C20: the token carried by leave and broadcast requests and given to the
\* handles' publish and to subscribe is the token argument of the most recent
\* join, none when that join was called without one.
C20_TokenOfLastJoin ==
  [][ (probed' /\ joinTok # <<>>
         /\ ret'.op \in {"leave", "broadcast", "publish", "subscribe"}
         /\ fx' # <<>>
         /\ fx'[1].t \in {"request", "publish", "getRemoteMedia"})
      => TokenOf(fx'[1]) = joinTok[1] ]_vars

====
